---- MODULE Spec2Model ----
(***************************************************************************)
(* Model of the Valve Steam Controller HID driver (hid-valve-sc.c).        *)
(*                                                                         *)
(* Spec        : the device lifecycle.  The threads of one session are the *)
(*               probe call, the two work items (connect_work and          *)
(*               disconnect_work, queued with schedule_work on the system  *)
(*               workqueue), the remove call, and the report path          *)
(*               (valve_sc_raw_event, one atomic step per report).         *)
(* SpecRequest : one call of valve_sc_send_request, step by step, against  *)
(*               a transport whose answers are chosen nondeterministically.*)
(***************************************************************************)
EXTENDS Integers, Sequences, FiniteSets, TLC

VARIABLES
    kind,               \* which hid_device_id / report descriptor matched
    parse_raw_report,   \* sc->parse_raw_report
    connected,          \* sc->connected
    hw_open,            \* between hid_hw_start/hid_hw_open and hid_hw_close
    work_pending,       \* the PENDING bit of each work_struct
    pc,                 \* position of each thread
    dev,                \* sc->input / sc->sensor: state of the pointee
    leaked,             \* a registered sink was lost: no handle refers to it
    uniq,               \* sc->uniq
    input_ret,          \* how the last valve_sc_init_input of a setup ended:
                        \* "ok" (returned 0), "failed" (an error), "none"
    rx,                 \* the connection report the last step handled
    rq,                 \* send_request: the arguments of the call
    report,             \* send_request: the kmalloc'ed 65-byte buffer
    answer,             \* send_request: the caller's answer buffer
    answer_size,        \* send_request: the caller's *answer_size
    ret,                \* send_request: the value returned
    rpc,                \* send_request: position inside the call
    io,                 \* send_request: the transport operations issued
    automouse,          \* sc->automouse
    autobuttons,        \* sc->autobuttons
    store,              \* the attribute write between its test of
                        \* sc->connected and its settings push
    wr,                 \* the attribute write that returned in the last step
    tx,                 \* the settings push issued by the last step
    center_touchpads,   \* sc->center_touchpads
    raw_data,           \* the input report (type 0x01) handled last
    fields,             \* what valve_sc_parse_input_events read from it
    batch,              \* the events it reported to sc->input, in order
    sensor_batch,       \* the events it reported to sc->sensor, in order
    key,                \* the level the event sink holds for each button
    ev                  \* where the handler of an input report stands

lifeVars == <<kind, parse_raw_report, connected, hw_open, work_pending, pc,
              dev, leaked, uniq, input_ret, rx>>
reqVars == <<rq, report, answer, answer_size, ret, rpc, io>>
attrVars == <<automouse, autobuttons, store, wr, tx>>
inputVars == <<center_touchpads, raw_data, fields, batch, sensor_batch, key,
               ev>>
vars == <<kind, parse_raw_report, connected, hw_open, work_pending, pc,
          dev, leaked, uniq, input_ret, rx, rq, report, answer, answer_size, ret, rpc, io,
          automouse, autobuttons, store, wr, tx,
          center_touchpads, raw_data, fields, batch, sensor_batch, key, ev>>

(***************************************************************************)
(* Bounds and program constants                                            *)
(***************************************************************************)
SC_OFFSET_TYPE == 2
SC_OFFSET_LENGTH == 3
SC_OFFSET_BUTTONS == 7
SC_OFFSET_TRIGGERS_8 == 11
SC_OFFSET_LEFT_AXES == 16
SC_OFFSET_RIGHT_AXES == 20
SC_OFFSET_ACCEL == 28
SC_OFFSET_GYRO == 34
SC_BTN_TOUCH_RIGHT == 268435456
SC_BTN_TOUCH_LEFT == 134217728
SC_BTN_CLICK_RIGHT == 67108864
SC_BTN_CLICK_LEFT == 33554432
SC_BTN_GRIP_RIGHT == 16777216
SC_BTN_GRIP_LEFT == 8388608
SC_BTN_START == 4194304
SC_BTN_MODE == 2097152
SC_BTN_SELECT == 1048576
SC_BTN_A == 32768
SC_BTN_X == 16384
SC_BTN_B == 8192
SC_BTN_Y == 4096
SC_BTN_SHOULDER_LEFT == 2048
SC_BTN_SHOULDER_RIGHT == 1024
SC_BTN_TRIGGER_LEFT == 512
SC_BTN_TRIGGER_RIGHT == 256
\* The size of an input report: if (sc->parse_raw_report && size == 64)
InputReportSize == 64
SC_FEATURE_REPORT_SIZE == 65
SC_FEATURE_DISABLE_AUTO_BUTTONS == 129
SC_FEATURE_ENABLE_AUTO_BUTTONS == 133
SC_FEATURE_SETTINGS == 135
SC_FEATURE_GET_SERIAL == 174
SC_FEATURE_GET_CONNECTION_STATE == 180
SC_SETTINGS_AUTOMOUSE == 8
SC_SETTINGS_AUTOMOUSE_ON == 0
SC_SETTINGS_AUTOMOUSE_OFF == 7
SC_SETTINGS_ORIENTATION == 48

\* if (params_size > 62)
MaxRequestPayload == 62
\* if (*answer_size > 61)
MaxAnswerPayload == 61
\* The caller's answer buffer: u8 serial[64], char answer[64].
AnswerBufferSize == 64
EINVAL == 22
ENOMEM == 12
EIO == 5

\* Largest params_size a caller passes in the model.
MaxParamsSize == 64

Kinds == {"wired", "receiver", "generic"}
Works == {"connect_work", "disconnect_work"}
Threads == {"probe", "connect_work", "disconnect_work", "remove"}
Devs == {"input", "sensor"}
\* A handle is NULL or points to a sink that is allocated (not yet registered)
\* or registered (live).
DevStates == {"NULL", "allocated", "registered"}

(***************************************************************************)
(* Workqueue and thread bookkeeping                                        *)
(***************************************************************************)
\* A fault in kernel context (a NULL or dangling handle dereferenced): what
\* the session does after it is not modelled.
Oops == (\E t \in Threads : pc[t] = "oops") \/ ev = "oops"

\* Thread t moves on to position p.
Goto(t, p) ==
    /\ ~Oops
    /\ pc' = [pc EXCEPT ![t] = p]

\* schedule_work(&sc->w): queue the work unless it is already pending.
schedule_work(w) == work_pending' = [work_pending EXCEPT ![w] = TRUE]

\* cancel_work_sync(&sc->w): returns once the work is neither pending nor
\* running; a pending instance is removed from the queue.
cancel_work_sync(w) ==
    /\ pc[w] = "idle"
    /\ work_pending' = [work_pending EXCEPT ![w] = FALSE]

\* sc->input = p / sc->sensor = p: a registered sink the handle pointed to
\* is no longer reachable through the session.
SetHandle(d, s) ==
    /\ dev' = [dev EXCEPT ![d] = s]
    /\ leaked' = IF dev[d] = "registered"
                 THEN [leaked EXCEPT ![d] = TRUE]
                 ELSE leaked

\* The sink the handle points to is registered, or is unregistered and freed
\* with the handle reset: no sink is lost.
SetPointee(d, s) ==
    /\ dev' = [dev EXCEPT ![d] = s]
    /\ UNCHANGED leaked

(***************************************************************************)
(* Settings pushes: calls of valve_sc_send_request without answer          *)
(***************************************************************************)
\* What hid_hw_raw_request returns: an error, a short count, the full count.
TransferResults == {-110, SC_FEATURE_REPORT_SIZE - 1, SC_FEATURE_REPORT_SIZE}

\* What a call without answer returns: -ENOMEM before any transfer, the
\* error of the feature-set, -EIO for a short count, 0.
PushResults ==
    {-ENOMEM} \cup {IF r < 0 THEN r
                    ELSE IF r # SC_FEATURE_REPORT_SIZE THEN -EIO
                    ELSE 0 : r \in TransferResults}

\* AutomouseParams with the value for "off" whatever sc->automouse holds.
AutomouseParams_AlwaysOff(am) ==
    <<SC_SETTINGS_AUTOMOUSE, SC_SETTINGS_AUTOMOUSE_OFF, 0>>

\* params of valve_sc_store_automouse: the register, its value, 0.
AutomouseParams(am) ==
    <<SC_SETTINGS_AUTOMOUSE,
      IF am THEN SC_SETTINGS_AUTOMOUSE_ON ELSE SC_SETTINGS_AUTOMOUSE_OFF,
      0>>

\* params of valve_sc_init_device: the automouse register and the
\* orientation register.
SettingsParams(am, orientation) ==
    AutomouseParams(am) \o <<SC_SETTINGS_ORIENTATION, orientation, 0>>

\* if (sc->autobuttons) feature = SC_FEATURE_ENABLE_AUTO_BUTTONS;
\* else feature = SC_FEATURE_DISABLE_AUTO_BUTTONS;
AutobuttonsFeature(ab) ==
    IF ab THEN SC_FEATURE_ENABLE_AUTO_BUTTONS
    ELSE SC_FEATURE_DISABLE_AUTO_BUTTONS

\* tx: the call valve_sc_send_request(sc, report_id, params, ..., NULL, NULL)
\* made by thread `by`, and what it returned.
Push(by, id, params, r) ==
    [by |-> by, report_id |-> id, params |-> params, ret |-> r]

NoPush == Push("none", 0, <<>>, 0)

\* store: no attribute write is between its test and its push.
NoStore == [attr |-> "none", buf |-> <<>>]

\* wr: no attribute write returned in the last step.
NoWrite == [attr |-> "none", buf |-> <<>>, ret |-> 0]

\* A step that is no part of an attribute write and pushes no settings.
AttrQuiet ==
    /\ UNCHANGED <<automouse, autobuttons, store>>
    /\ wr' = NoWrite
    /\ tx' = NoPush

(***************************************************************************)
(* valve_sc_raw_event                                                      *)
(***************************************************************************)
\* The reports delivered: size, raw_data[SC_OFFSET_TYPE] and raw_data[4].
Reports ==
    {[size |-> 64, type |-> 3, body |-> b] : b \in {0, 1, 2, 3}}
    \cup {[size |-> 64, type |-> 1, body |-> 0],
          [size |-> 63, type |-> 3, body |-> 2]}

\* rx when the last step did not handle a connection report.
NoReport == [size |-> 0, type |-> 0, body |-> 0]

\* ConnectionEvent without the test of sc->connected on a connect report.
ConnectionEvent_Unguarded(body) ==
    CASE body = 1 ->
            IF connected
            THEN connected' = FALSE /\ schedule_work("disconnect_work")
            ELSE UNCHANGED <<connected, work_pending>>
      [] body = 2 ->
            connected' = TRUE /\ schedule_work("connect_work")
      [] OTHER -> UNCHANGED <<connected, work_pending>>

\* case 0x03: switch (raw_data[4])
ConnectionEvent(body) ==
    CASE body = 1 ->
            IF connected
            THEN connected' = FALSE /\ schedule_work("disconnect_work")
            ELSE UNCHANGED <<connected, work_pending>>
      [] body = 2 ->
            IF ~connected
            THEN connected' = TRUE /\ schedule_work("connect_work")
            ELSE UNCHANGED <<connected, work_pending>>
      [] OTHER -> UNCHANGED <<connected, work_pending>>

\* The handler on report r.  With logged, a connection report it handles is
\* recorded in rx for the step that handles it.
RawEvent(r, logged) ==
    /\ ~Oops
    /\ hw_open
    /\ IF parse_raw_report /\ r.size = 64 /\ r.type = 3
       THEN /\ ConnectionEvent(r.body)
            /\ rx' = IF logged THEN r ELSE NoReport
       ELSE /\ UNCHANGED <<connected, work_pending>>
            /\ rx' = NoReport
    /\ UNCHANGED <<kind, parse_raw_report, hw_open, pc, dev, leaked, uniq,
                   input_ret>>
    /\ UNCHANGED reqVars
    /\ AttrQuiet
    /\ UNCHANGED inputVars

valve_sc_raw_event == \E r \in Reports : RawEvent(r, FALSE)

valve_sc_raw_event_logged == \E r \in Reports : RawEvent(r, TRUE)

\* Delivery restricted to the time between the return of probe and the call
\* of remove (a transport that holds reports back while either runs).
valve_sc_raw_event_attached ==
    /\ pc["probe"] = "done"
    /\ pc["remove"] = "idle"
    /\ \E r \in Reports : RawEvent(r, FALSE)

valve_sc_raw_event_attached_logged ==
    /\ pc["probe"] = "done"
    /\ pc["remove"] = "idle"
    /\ \E r \in Reports : RawEvent(r, TRUE)

(***************************************************************************)
(* valve_sc_init_device, run by probe (wired) and by connect_work          *)
(***************************************************************************)
InitThreads == {"probe", "connect_work"}

\* Where the caller of valve_sc_init_device continues.
AfterInit(t) == IF t = "probe" THEN "sysfs" ELSE "idle"

\* valve_sc_send_request(SC_FEATURE_GET_SERIAL, ..., serial, &serial_len):
\* the feature-set, then (after msleep(50)) the feature-get.
InitSerialSet(t) ==
    /\ pc[t] = "serial_set"
    /\ \/ Goto(t, "serial_get")
       \/ Goto(t, "uniq")
    /\ UNCHANGED <<kind, parse_raw_report, connected, hw_open, work_pending,
                   dev, leaked, uniq>>
    /\ rx' = NoReport
    /\ UNCHANGED input_ret
    /\ UNCHANGED reqVars
    /\ AttrQuiet
    /\ UNCHANGED inputVars

InitSerialGet(t) ==
    /\ pc[t] = "serial_get"
    /\ Goto(t, "uniq")
    /\ UNCHANGED <<kind, parse_raw_report, connected, hw_open, work_pending,
                   dev, leaked, uniq>>
    /\ rx' = NoReport
    /\ UNCHANGED input_ret
    /\ UNCHANGED reqVars
    /\ AttrQuiet
    /\ UNCHANGED inputVars

\* sc->uniq = kmalloc(serial_len, GFP_KERNEL)
InitUniq(t) ==
    /\ pc[t] = "uniq"
    /\ uniq' \in {"NULL", "set"}
    /\ Goto(t, "settings")
    /\ UNCHANGED <<kind, parse_raw_report, connected, hw_open, work_pending,
                   dev, leaked>>
    /\ rx' = NoReport
    /\ UNCHANGED input_ret
    /\ UNCHANGED reqVars
    /\ AttrQuiet
    /\ UNCHANGED inputVars

\* The settings push (sc->automouse and sc->orientation, which is 0 from
\* probe on while no reader has opened the sensor sink) and the auto-buttons
\* push: requests without answer, their failure is only logged.  With
\* logged, the push is recorded in tx for the step that issues it.
InitSettings(t, logged) ==
    /\ pc[t] \in {"settings", "autobuttons"}
    /\ Goto(t, IF pc[t] = "settings" THEN "autobuttons" ELSE "input_alloc")
    /\ UNCHANGED <<kind, parse_raw_report, connected, hw_open, work_pending,
                   dev, leaked, uniq>>
    /\ rx' = NoReport
    /\ UNCHANGED input_ret
    /\ UNCHANGED reqVars
    /\ UNCHANGED inputVars
    /\ UNCHANGED <<automouse, autobuttons, store>>
    /\ wr' = NoWrite
    /\ \E r \in IF logged THEN PushResults ELSE {0} :
        tx' = IF ~logged THEN NoPush
              ELSE IF pc[t] = "settings"
              THEN Push(t, SC_FEATURE_SETTINGS,
                        SettingsParams(automouse, 0), r)
              ELSE Push(t, AutobuttonsFeature(autobuttons), <<>>, r)

DevOf(p) == IF p \in {"input_alloc", "input_reg"} THEN "input" ELSE "sensor"

\* valve_sc_init_input / valve_sc_init_sensor:
\* sc->input = input_allocate_device(); if (!sc->input) return -ENOMEM;
\* With logged, what valve_sc_init_input returns is recorded in input_ret.
InitAlloc(t, logged) ==
    /\ pc[t] \in {"input_alloc", "sensor_alloc"}
    /\ LET d == DevOf(pc[t]) IN
        \/ /\ SetHandle(d, "allocated")
           /\ Goto(t, IF d = "input" THEN "input_reg" ELSE "sensor_reg")
           /\ UNCHANGED input_ret
        \/ /\ SetHandle(d, "NULL")
           /\ Goto(t, IF d = "input" THEN "sensor_alloc" ELSE AfterInit(t))
           /\ input_ret' = IF logged /\ d = "input"
                           THEN "failed" ELSE input_ret
    /\ UNCHANGED <<kind, parse_raw_report, connected, hw_open, work_pending,
                   uniq>>
    /\ rx' = NoReport
    /\ UNCHANGED reqVars
    /\ AttrQuiet
    /\ UNCHANGED inputVars

\* The fields of the sink are filled in and input_register_device is called,
\* all through sc->input: a handle that is NULL, or whose object is not the
\* freshly allocated one, is a fault in the thread.
InitRegister(t, logged) ==
    /\ pc[t] \in {"input_reg", "sensor_reg"}
    /\ LET d == DevOf(pc[t])
           next == IF d = "input" THEN "sensor_alloc" ELSE AfterInit(t) IN
        IF dev[d] = "allocated"
        THEN \/ /\ SetPointee(d, "registered")
                /\ Goto(t, next)
                /\ input_ret' = IF logged /\ d = "input"
                                THEN "ok" ELSE input_ret
             \/ /\ SetHandle(d, "NULL")
                /\ Goto(t, next)
                /\ input_ret' = IF logged /\ d = "input"
                                THEN "failed" ELSE input_ret
        ELSE UNCHANGED <<dev, leaked, input_ret>> /\ Goto(t, "oops")
    /\ UNCHANGED <<kind, parse_raw_report, connected, hw_open, work_pending,
                   uniq>>
    /\ rx' = NoReport
    /\ UNCHANGED reqVars
    /\ AttrQuiet
    /\ UNCHANGED inputVars

\* With log_push the settings pushes are recorded in tx; with log_create
\* what valve_sc_init_input returned is recorded in input_ret.
InitDevice(log_push, log_create) ==
    \E t \in InitThreads :
        \/ InitSerialSet(t)
        \/ InitSerialGet(t)
        \/ InitUniq(t)
        \/ InitSettings(t, log_push)
        \/ InitAlloc(t, log_create)
        \/ InitRegister(t, log_create)

valve_sc_init_device == InitDevice(FALSE, FALSE)

valve_sc_init_device_logged == InitDevice(TRUE, FALSE)

valve_sc_init_device_outcome == InitDevice(FALSE, TRUE)

(***************************************************************************)
(* valve_sc_stop_device, run by disconnect_work and by remove              *)
(***************************************************************************)
StopThreads == {"disconnect_work", "remove"}

AfterStop(t) == IF t = "remove" THEN "close" ELSE "idle"

\* if (sc->input) { input_unregister_device(sc->input);
\*                   input_free_device(sc->input); sc->input = NULL; }
\* and the same for sc->sensor.  Unregistering a sink that another thread
\* has allocated and not yet registered is a fault or goes through.
StopSink(t) ==
    /\ pc[t] \in {"stop_input", "stop_sensor"}
    /\ LET d == IF pc[t] = "stop_input" THEN "input" ELSE "sensor"
           next == IF d = "input" THEN "stop_sensor" ELSE "stop_uniq" IN
        CASE dev[d] = "NULL" ->
                UNCHANGED <<dev, leaked>> /\ Goto(t, next)
          [] dev[d] = "registered" ->
                SetPointee(d, "NULL") /\ Goto(t, next)
          [] OTHER ->
                \/ SetPointee(d, "NULL") /\ Goto(t, next)
                \/ UNCHANGED <<dev, leaked>> /\ Goto(t, "oops")
    /\ UNCHANGED <<kind, parse_raw_report, connected, hw_open, work_pending,
                   uniq>>
    /\ rx' = NoReport
    /\ UNCHANGED input_ret
    /\ UNCHANGED reqVars
    /\ AttrQuiet
    /\ UNCHANGED inputVars

\* kfree(sc->uniq); sc->uniq = NULL;
StopUniq(t) ==
    /\ pc[t] = "stop_uniq"
    /\ uniq' = "NULL"
    /\ Goto(t, AfterStop(t))
    /\ UNCHANGED <<kind, parse_raw_report, connected, hw_open, work_pending,
                   dev, leaked>>
    /\ rx' = NoReport
    /\ UNCHANGED input_ret
    /\ UNCHANGED reqVars
    /\ AttrQuiet
    /\ UNCHANGED inputVars

valve_sc_stop_device ==
    \E t \in StopThreads :
        \/ StopSink(t)
        \/ StopUniq(t)

(***************************************************************************)
(* The work items                                                          *)
(***************************************************************************)
\* A worker of the system workqueue takes a pending work: the two works are
\* separate items, each is never run twice at once, and nothing orders or
\* excludes one against the other.
WorkStart(w, first) ==
    /\ work_pending[w]
    /\ pc[w] = "idle"
    /\ work_pending' = [work_pending EXCEPT ![w] = FALSE]
    /\ Goto(w, first)
    /\ UNCHANGED <<kind, parse_raw_report, connected, hw_open, dev, leaked,
                   uniq>>
    /\ rx' = NoReport
    /\ UNCHANGED input_ret
    /\ UNCHANGED reqVars
    /\ AttrQuiet
    /\ UNCHANGED inputVars

valve_sc_connect_work == WorkStart("connect_work", "serial_set")

valve_sc_disconnect_work == WorkStart("disconnect_work", "stop_input")

(***************************************************************************)
(* valve_sc_probe                                                          *)
(***************************************************************************)
\* hid_parse, the comparison of the report descriptor, hid_hw_start and
\* hid_hw_open (taken to succeed): from here on reports are delivered.
ProbeStart ==
    /\ pc["probe"] = "start"
    /\ parse_raw_report' = (kind # "generic")
    /\ hw_open' = TRUE
    /\ Goto("probe", IF kind = "generic" THEN "done" ELSE "switch")
    /\ UNCHANGED <<kind, connected, work_pending, dev, leaked, uniq>>
    /\ rx' = NoReport
    /\ UNCHANGED input_ret
    /\ UNCHANGED reqVars
    /\ AttrQuiet
    /\ UNCHANGED inputVars

\* switch (id->product)
ProbeSwitch ==
    /\ pc["probe"] = "switch"
    /\ connected' = (kind = "wired")
    /\ Goto("probe", IF kind = "wired" THEN "serial_set" ELSE "state_set")
    /\ UNCHANGED <<kind, parse_raw_report, hw_open, work_pending, dev, leaked,
                   uniq>>
    /\ rx' = NoReport
    /\ UNCHANGED input_ret
    /\ UNCHANGED reqVars
    /\ AttrQuiet
    /\ UNCHANGED inputVars

\* ProbeQuery with the connection state taken from the answer of the query.
ProbeQuery_AnswerConnects ==
    /\ \/ /\ pc["probe"] = "state_set"
          /\ \/ Goto("probe", "state_get") /\ UNCHANGED connected
             \/ Goto("probe", "sysfs") /\ UNCHANGED connected
       \/ /\ pc["probe"] = "state_get"
          /\ Goto("probe", "sysfs")
          /\ connected' \in BOOLEAN
    /\ UNCHANGED <<kind, parse_raw_report, hw_open, work_pending, dev, leaked,
                   uniq>>
    /\ rx' = NoReport
    /\ UNCHANGED input_ret
    /\ UNCHANGED reqVars
    /\ AttrQuiet
    /\ UNCHANGED inputVars

\* valve_sc_send_request(SC_FEATURE_GET_CONNECTION_STATE, ..., answer,
\* &answer_len): the feature-set, then the feature-get; the outcome is only
\* logged and the answer is not read.
ProbeQuery ==
    /\ \/ /\ pc["probe"] = "state_set"
          /\ \/ Goto("probe", "state_get")
             \/ Goto("probe", "sysfs")
       \/ /\ pc["probe"] = "state_get"
          /\ Goto("probe", "sysfs")
    /\ UNCHANGED <<kind, parse_raw_report, connected, hw_open, work_pending,
                   dev, leaked, uniq>>
    /\ rx' = NoReport
    /\ UNCHANGED input_ret
    /\ UNCHANGED reqVars
    /\ AttrQuiet
    /\ UNCHANGED inputVars

\* sysfs_create_group; return 0
ProbeSysfs ==
    /\ pc["probe"] = "sysfs"
    /\ Goto("probe", "done")
    /\ UNCHANGED <<kind, parse_raw_report, connected, hw_open, work_pending,
                   dev, leaked, uniq>>
    /\ rx' = NoReport
    /\ UNCHANGED input_ret
    /\ UNCHANGED reqVars
    /\ AttrQuiet
    /\ UNCHANGED inputVars

valve_sc_probe == ProbeStart \/ ProbeSwitch \/ ProbeQuery \/ ProbeSysfs

(***************************************************************************)
(* valve_sc_remove                                                         *)
(***************************************************************************)
\* The interface is removed after probe has returned: sysfs_remove_group,
\* which waits for an attribute write under way.
RemoveStart ==
    /\ pc["probe"] = "done"
    /\ pc["remove"] = "idle"
    /\ store = NoStore
    /\ Goto("remove", "cancel_connect")
    /\ UNCHANGED <<kind, parse_raw_report, connected, hw_open, work_pending,
                   dev, leaked, uniq>>
    /\ rx' = NoReport
    /\ UNCHANGED input_ret
    /\ UNCHANGED reqVars
    /\ AttrQuiet
    /\ UNCHANGED inputVars

RemoveCancelConnect ==
    /\ pc["remove"] = "cancel_connect"
    /\ cancel_work_sync("connect_work")
    /\ Goto("remove", "cancel_disconnect")
    /\ UNCHANGED <<kind, parse_raw_report, connected, hw_open, dev, leaked,
                   uniq>>
    /\ rx' = NoReport
    /\ UNCHANGED input_ret
    /\ UNCHANGED reqVars
    /\ AttrQuiet
    /\ UNCHANGED inputVars

RemoveCancelDisconnect ==
    /\ pc["remove"] = "cancel_disconnect"
    /\ cancel_work_sync("disconnect_work")
    /\ Goto("remove", "check")
    /\ UNCHANGED <<kind, parse_raw_report, connected, hw_open, dev, leaked,
                   uniq>>
    /\ rx' = NoReport
    /\ UNCHANGED input_ret
    /\ UNCHANGED reqVars
    /\ AttrQuiet
    /\ UNCHANGED inputVars

\* if (sc->connected) valve_sc_stop_device(sc);
RemoveCheck ==
    /\ pc["remove"] = "check"
    /\ Goto("remove", IF connected THEN "stop_input" ELSE "close")
    /\ UNCHANGED <<kind, parse_raw_report, connected, hw_open, work_pending,
                   dev, leaked, uniq>>
    /\ rx' = NoReport
    /\ UNCHANGED input_ret
    /\ UNCHANGED reqVars
    /\ AttrQuiet
    /\ UNCHANGED inputVars

\* hid_hw_close; hid_hw_stop: no report is delivered any more.
RemoveClose ==
    /\ pc["remove"] = "close"
    /\ hw_open' = FALSE
    /\ Goto("remove", "done")
    /\ UNCHANGED <<kind, parse_raw_report, connected, work_pending, dev,
                   leaked, uniq>>
    /\ rx' = NoReport
    /\ UNCHANGED input_ret
    /\ UNCHANGED reqVars
    /\ AttrQuiet
    /\ UNCHANGED inputVars

valve_sc_remove ==
    \/ RemoveStart
    \/ RemoveCancelConnect
    \/ RemoveCancelDisconnect
    \/ RemoveCheck
    \/ RemoveClose

(***************************************************************************)
(* valve_sc_store_automouse, valve_sc_store_autobuttons                    *)
(***************************************************************************)
Attrs == {"automouse", "autobuttons"}

\* The texts written to an attribute file.
Bufs == {<<"o", "n">>, <<"o", "f", "f", "\n">>, <<"o">>}

\* strncmp(buf, lit, n) == 0 for the n characters of lit.
StartsWith(buf, lit) ==
    /\ Len(buf) >= Len(lit)
    /\ SubSeq(buf, 1, Len(lit)) = lit

\* if (strncmp(buf, "on", 2) == 0) ... else if (strncmp(buf, "off", 3) == 0)
\* ... else return -EINVAL;
ParseSwitch(buf) ==
    IF StartsWith(buf, <<"o", "n">>) THEN "on"
    ELSE IF StartsWith(buf, <<"o", "f", "f">>) THEN "off"
    ELSE "invalid"

\* The write of buf to attribute a, up to the test of sc->connected: the
\* shadow value is assigned, and a write to a disconnected session returns
\* count.  The attribute files exist from the end of probe to
\* sysfs_remove_group.
StoreBegin(a, buf) ==
    /\ ~Oops
    /\ kind # "generic"
    /\ pc["probe"] = "done"
    /\ pc["remove"] = "idle"
    /\ store = NoStore
    /\ IF ParseSwitch(buf) = "invalid"
       THEN /\ UNCHANGED <<automouse, autobuttons, store>>
            /\ wr' = [attr |-> a, buf |-> buf, ret |-> -EINVAL]
       ELSE /\ automouse' = IF a = "automouse"
                            THEN ParseSwitch(buf) = "on" ELSE automouse
            /\ autobuttons' = IF a = "autobuttons"
                              THEN ParseSwitch(buf) = "on" ELSE autobuttons
            /\ IF connected
               THEN /\ store' = [attr |-> a, buf |-> buf]
                    /\ wr' = NoWrite
               ELSE /\ store' = NoStore
                    /\ wr' = [attr |-> a, buf |-> buf, ret |-> Len(buf)]
    /\ tx' = NoPush
    /\ UNCHANGED <<kind, parse_raw_report, connected, hw_open, work_pending,
                   pc, dev, leaked, uniq>>
    /\ rx' = NoReport
    /\ UNCHANGED input_ret
    /\ UNCHANGED reqVars
    /\ UNCHANGED inputVars

\* The push of the write under way (its result is only logged) and the
\* return of count.
StorePush(a) ==
    /\ ~Oops
    /\ store # NoStore
    /\ store.attr = a
    /\ \E r \in PushResults :
        tx' = IF a = "automouse"
              THEN Push("store", SC_FEATURE_SETTINGS,
                        AutomouseParams(automouse), r)
              ELSE Push("store", AutobuttonsFeature(autobuttons), <<>>, r)
    /\ wr' = [attr |-> a, buf |-> store.buf, ret |-> Len(store.buf)]
    /\ store' = NoStore
    /\ UNCHANGED <<automouse, autobuttons>>
    /\ UNCHANGED <<kind, parse_raw_report, connected, hw_open, work_pending,
                   pc, dev, leaked, uniq>>
    /\ rx' = NoReport
    /\ UNCHANGED input_ret
    /\ UNCHANGED reqVars
    /\ UNCHANGED inputVars

valve_sc_store_automouse ==
    \/ \E buf \in Bufs : StoreBegin("automouse", buf)
    \/ StorePush("automouse")

valve_sc_store_autobuttons ==
    \/ \E buf \in Bufs : StoreBegin("autobuttons", buf)
    \/ StorePush("autobuttons")

(***************************************************************************)
(* valve_sc_parse_input_events                                             *)
(***************************************************************************)
\* a | b for naturals.
RECURSIVE BitOr(_, _)
BitOr(a, b) ==
    IF a = 0 THEN b
    ELSE IF b = 0 THEN a
    ELSE (IF a % 2 = 1 \/ b % 2 = 1 THEN 1 ELSE 0)
            + 2 * BitOr(a \div 2, b \div 2)

\* S16 with the low 16 bits read as an unsigned value.
S16_Unsigned(x) == x % 65536

\* The conversion of an int to s16 on assignment: the low 16 bits, read as
\* two's complement.
S16(x) ==
    LET m == x % 65536 IN IF m >= 32768 THEN m - 65536 ELSE m

\* A u32 is kept as its two 16-bit halves.  buttons |= byte << i*8: the
\* byte lands in bits 8i..8i+7 (for i = 3 the shifted int is negative when
\* the byte is 0x80 or more, and its conversion to u32 has the same bits).
OrByte(u, byte, i) ==
    IF i < 2
    THEN [u EXCEPT !.lo = BitOr(u.lo, byte * (IF i = 0 THEN 1 ELSE 256))]
    ELSE [u EXCEPT !.hi = BitOr(u.hi, byte * (IF i = 2 THEN 1 ELSE 256))]

\* for (i = 0; i < sizeof (u32); ++i)
\*         buttons |= raw_data[SC_OFFSET_BUTTONS+i] << i*8;
ReadButtons(raw) ==
    LET b0 == OrByte([lo |-> 0, hi |-> 0], raw[SC_OFFSET_BUTTONS], 0)
        b1 == OrByte(b0, raw[SC_OFFSET_BUTTONS + 1], 1)
        b2 == OrByte(b1, raw[SC_OFFSET_BUTTONS + 2], 2)
    IN OrByte(b2, raw[SC_OFFSET_BUTTONS + 3], 3)

\* s16 v = 0; for (i = 0; i < sizeof (s16); ++i) v |= raw_data[off+i] << i*8;
ReadS16(raw, off) ==
    LET v0 == S16(BitOr(0, raw[off]))
    IN S16(BitOr(v0, raw[off + 1] * 256))

\* The "Read fields" part: buttons, triggers[2], left[2], right[2], accel[3],
\* gyro[3], indexed from 0 as in the code.
ReadFields(raw) ==
    [buttons |-> ReadButtons(raw),
     triggers |-> [a \in 0..1 |-> raw[SC_OFFSET_TRIGGERS_8 + a]],
     left |-> [a \in 0..1 |-> ReadS16(raw, SC_OFFSET_LEFT_AXES + 2 * a)],
     right |-> [a \in 0..1 |-> ReadS16(raw, SC_OFFSET_RIGHT_AXES + 2 * a)],
     accel |-> [a \in 0..2 |-> ReadS16(raw, SC_OFFSET_ACCEL + 2 * a)],
     gyro |-> [a \in 0..2 |-> ReadS16(raw, SC_OFFSET_GYRO + 2 * a)]]

\* buttons & sc_btn, for a mask of one bit.
Flag(buttons, sc_btn) ==
    IF sc_btn >= 65536
    THEN (buttons.hi \div (sc_btn \div 65536)) % 2 = 1
    ELSE (buttons.lo \div sc_btn) % 2 = 1

\* input_report_abs(dev, code, value)
Abs(code, value) == [type |-> "EV_ABS", code |-> code, value |-> value]

\* SC_REPORT_BTN(input, buttons, sc_btn, code):
\* input_report_key(input, code, (buttons & sc_btn ? 1 : 0))
SC_REPORT_BTN(buttons, sc_btn, code) ==
    [type |-> "EV_KEY", code |-> code,
     value |-> IF Flag(buttons, sc_btn) THEN 1 ELSE 0]

\* input_sync(dev)
Sync == [type |-> "EV_SYN", code |-> "SYN_REPORT", value |-> 0]

\* The buttons reported on every report, in the order of the code.
PlainButtons ==
    <<[sc_btn |-> SC_BTN_A, code |-> "BTN_SOUTH"],
      [sc_btn |-> SC_BTN_B, code |-> "BTN_EAST"],
      [sc_btn |-> SC_BTN_X, code |-> "BTN_WEST"],
      [sc_btn |-> SC_BTN_Y, code |-> "BTN_NORTH"],
      [sc_btn |-> SC_BTN_SELECT, code |-> "BTN_SELECT"],
      [sc_btn |-> SC_BTN_MODE, code |-> "BTN_MODE"],
      [sc_btn |-> SC_BTN_START, code |-> "BTN_START"],
      [sc_btn |-> SC_BTN_SHOULDER_LEFT, code |-> "BTN_TL"],
      [sc_btn |-> SC_BTN_SHOULDER_RIGHT, code |-> "BTN_TR"],
      [sc_btn |-> SC_BTN_TRIGGER_LEFT, code |-> "BTN_TL2"],
      [sc_btn |-> SC_BTN_TRIGGER_RIGHT, code |-> "BTN_TR2"],
      [sc_btn |-> SC_BTN_GRIP_LEFT, code |-> "BTN_C"],
      [sc_btn |-> SC_BTN_GRIP_RIGHT, code |-> "BTN_Z"]>>

\* The keybit of the event sink: the buttons valve_sc_init_input declares.
Catalog ==
    {PlainButtons[i].code : i \in 1..Len(PlainButtons)}
        \cup {"BTN_THUMBL", "BTN_THUMBR", "BTN_STICK_CLICK"}

\* InputEvents without the forced (0,0) of the untouched left pad and with
\* the right pad reported only while it is touched.
InputEvents_NoCentering(f, center) ==
    LET touch_left == Flag(f.buttons, SC_BTN_TOUCH_LEFT)
        touch_right == Flag(f.buttons, SC_BTN_TOUCH_RIGHT)
    IN  (IF touch_left
         THEN <<Abs("ABS_HAT0X", f.left[0]), Abs("ABS_HAT0Y", -f.left[1])>>
         ELSE <<>>)
        \o (IF touch_right
            THEN <<Abs("ABS_HAT1X", f.right[0]),
                   Abs("ABS_HAT1Y", -f.right[1])>>
            ELSE <<>>)
        \o <<Abs("ABS_BRAKE", f.triggers[0]), Abs("ABS_GAS", f.triggers[1])>>
        \o (IF touch_left
            THEN <<SC_REPORT_BTN(f.buttons, SC_BTN_CLICK_LEFT, "BTN_THUMBL")>>
            ELSE <<SC_REPORT_BTN(f.buttons, SC_BTN_CLICK_LEFT,
                                 "BTN_STICK_CLICK"),
                   Abs("ABS_X", f.left[0]), Abs("ABS_Y", -f.left[1])>>)
        \o (IF touch_right
            THEN <<SC_REPORT_BTN(f.buttons, SC_BTN_CLICK_RIGHT,
                                 "BTN_THUMBR")>>
            ELSE <<>>)
        \o [i \in 1..Len(PlainButtons) |->
                SC_REPORT_BTN(f.buttons, PlainButtons[i].sc_btn,
                              PlainButtons[i].code)]
        \o <<Sync>>

\* valve_sc_init_input: input_set_abs_params(sc->input, axis, -32767, 32767,
\* ...) for the stick (ABS_X, ABS_Y) and the touchpads (ABS_HAT0X/Y,
\* ABS_HAT1X/Y).
StickPadAxes ==
    {"ABS_X", "ABS_Y", "ABS_HAT0X", "ABS_HAT0Y", "ABS_HAT1X", "ABS_HAT1Y"}

AxisMin == -32767

AxisMax == 32767

\* The "if (sc->input)" part: the calls on sc->input, in order.
InputEvents(f, center) ==
    LET touch_left == Flag(f.buttons, SC_BTN_TOUCH_LEFT)
        touch_right == Flag(f.buttons, SC_BTN_TOUCH_RIGHT)
    IN  (IF touch_left
         THEN <<Abs("ABS_HAT0X", f.left[0]), Abs("ABS_HAT0Y", -f.left[1])>>
         ELSE IF center /\ f.left[0] = 0 /\ f.left[1] = 0
         THEN <<Abs("ABS_HAT0X", 0), Abs("ABS_HAT0Y", 0)>>
         ELSE <<>>)
        \o (IF center \/ touch_right
            THEN <<Abs("ABS_HAT1X", f.right[0]),
                   Abs("ABS_HAT1Y", -f.right[1])>>
            ELSE <<>>)
        \o <<Abs("ABS_BRAKE", f.triggers[0]), Abs("ABS_GAS", f.triggers[1])>>
        \o (IF touch_left
            THEN <<SC_REPORT_BTN(f.buttons, SC_BTN_CLICK_LEFT, "BTN_THUMBL")>>
            ELSE <<SC_REPORT_BTN(f.buttons, SC_BTN_CLICK_LEFT,
                                 "BTN_STICK_CLICK"),
                   Abs("ABS_X", f.left[0]), Abs("ABS_Y", -f.left[1])>>)
        \o (IF touch_right
            THEN <<SC_REPORT_BTN(f.buttons, SC_BTN_CLICK_RIGHT,
                                 "BTN_THUMBR")>>
            ELSE <<>>)
        \o [i \in 1..Len(PlainButtons) |->
                SC_REPORT_BTN(f.buttons, PlainButtons[i].sc_btn,
                              PlainButtons[i].code)]
        \o <<Sync>>

\* The "if (sc->sensor)" part.
SensorEvents(f) ==
    <<Abs("ABS_X", f.accel[0]), Abs("ABS_Y", f.accel[1]),
      Abs("ABS_Z", f.accel[2]), Abs("ABS_RX", f.gyro[0]),
      Abs("ABS_RY", f.gyro[1]), Abs("ABS_RZ", f.gyro[2]), Sync>>

\* What the event sink holds after the events es, handled in order: a key
\* event of its catalog sets the level of that button.
RECURSIVE SinkKeys(_, _)
SinkKeys(k, es) ==
    IF es = <<>> THEN k
    ELSE LET e == Head(es)
         IN SinkKeys(IF e.type = "EV_KEY" /\ e.code \in Catalog
                     THEN [k EXCEPT ![e.code] = e.value] ELSE k,
                     Tail(es))

\* The input reports delivered: the four bytes of the buttons field, two
\* bytes put at offset off (0: none of the fields), and one value for every
\* other byte but the type and the length.
ButtonBytes ==
    {<<0, 0, 0, 0>>, <<0, 0, 0, 10>>, <<0, 0, 0, 20>>, <<0, 128, 0, 0>>,
     <<255, 255, 255, 255>>, <<1, 2, 3, 132>>}

BytePairs == {<<255, 255>>, <<0, 128>>, <<52, 18>>}

AxisOffsets ==
    {SC_OFFSET_LEFT_AXES, SC_OFFSET_LEFT_AXES + 2,
     SC_OFFSET_RIGHT_AXES, SC_OFFSET_RIGHT_AXES + 2}

FieldOffsets ==
    AxisOffsets \cup
    {SC_OFFSET_TRIGGERS_8,
     SC_OFFSET_ACCEL, SC_OFFSET_ACCEL + 2, SC_OFFSET_ACCEL + 4,
     SC_OFFSET_GYRO, SC_OFFSET_GYRO + 2, SC_OFFSET_GYRO + 4}

InputReports ==
    {[buttons |-> b, fill |-> 0, off |-> o, pair |-> q] :
        b \in ButtonBytes, o \in AxisOffsets \cup {0}, q \in BytePairs}
    \cup
    {[buttons |-> [i \in 1..4 |-> f], fill |-> f, off |-> o, pair |-> q] :
        f \in {0, 255}, o \in FieldOffsets, q \in BytePairs}
    \cup
    {[buttons |-> <<0, 0, 0, 0>>, fill |-> 0, off |-> 0, pair |-> <<0, 0>>]}

\* raw_data[0..63] of input report r: type 0x01, length 60.
RawData(r) ==
    [i \in 0..(InputReportSize - 1) |->
        IF i = r.off THEN r.pair[1]
        ELSE IF i = r.off + 1 THEN r.pair[2]
        ELSE IF i = SC_OFFSET_TYPE THEN 1
        ELSE IF i = SC_OFFSET_LENGTH THEN 60
        ELSE IF i \in SC_OFFSET_BUTTONS..(SC_OFFSET_BUTTONS + 3)
        THEN r.buttons[i - SC_OFFSET_BUTTONS + 1]
        ELSE r.fill]

\* valve_sc_raw_event, case 0x01, on a report of 64 bytes:
\* if (sc->input || sc->sensor) valve_sc_parse_input_events(sc, raw_data);
InputEvent(r) ==
    /\ ~Oops
    /\ hw_open
    /\ parse_raw_report
    /\ IF dev["input"] # "NULL" \/ dev["sensor"] # "NULL"
       THEN \E raw \in {RawData(r)} :
            \E f \in {ReadFields(raw)} :
            \E es \in {IF dev["input"] # "NULL"
                        THEN InputEvents(f, center_touchpads) ELSE <<>>} :
               /\ raw_data' = raw
               /\ fields' = f
               /\ batch' = es
               /\ sensor_batch' = IF dev["sensor"] # "NULL"
                                  THEN SensorEvents(f) ELSE <<>>
               /\ key' = SinkKeys(key, es)
       ELSE UNCHANGED <<raw_data, fields, batch, sensor_batch, key>>
    /\ UNCHANGED <<center_touchpads, ev>>
    /\ UNCHANGED lifeVars
    /\ UNCHANGED reqVars
    /\ AttrQuiet

valve_sc_raw_event_input == \E r \in InputReports : InputEvent(r)

\* valve_sc_store_center_touchpads
valve_sc_store_center_touchpads ==
    /\ ~Oops
    /\ kind # "generic"
    /\ pc["probe"] = "done"
    /\ pc["remove"] = "idle"
    /\ \E buf \in Bufs :
        center_touchpads' = IF ParseSwitch(buf) = "invalid"
                            THEN center_touchpads
                            ELSE ParseSwitch(buf) = "on"
    /\ UNCHANGED <<raw_data, fields, batch, sensor_batch, key, ev>>
    /\ UNCHANGED lifeVars
    /\ UNCHANGED reqVars
    /\ AttrQuiet

\* sc->center_touchpads = true; no input report handled, the sink (once it
\* is allocated) holds every button released.
InputInit ==
    /\ center_touchpads = TRUE
    /\ raw_data = [i \in 0..(InputReportSize - 1) |-> 0]
    /\ fields = ReadFields(raw_data)
    /\ batch = <<>>
    /\ sensor_batch = <<>>
    /\ key = [c \in Catalog |-> 0]
    /\ ev = "idle"

(***************************************************************************)
(* The handler of an input report (type 0x01), one handle access per step  *)
(***************************************************************************)
\* The handler reads sc->input and sc->sensor without a lock each time it
\* tests or uses them; the works run on other processors meanwhile.  The
\* transport hands over one report at a time.
EventFrame ==
    /\ UNCHANGED <<center_touchpads, raw_data, fields, batch, sensor_batch,
                   key>>
    /\ UNCHANGED lifeVars
    /\ UNCHANGED reqVars
    /\ AttrQuiet

\* valve_sc_raw_event, case 0x01: if (sc->input || sc->sensor)
\*     valve_sc_parse_input_events(sc, raw_data);
EventTest ==
    /\ ev = "idle"
    /\ ~Oops
    /\ hw_open
    /\ parse_raw_report
    /\ pc["probe"] = "done"
    /\ pc["remove"] = "idle"
    /\ \E d \in Devs : dev[d] # "NULL"
    /\ ev' = "input"
    /\ EventFrame

\* valve_sc_parse_input_events: if (sc->input) { ... } and, after it,
\* if (sc->sensor) { ... }.
EventBranch ==
    /\ ev \in {"input", "sensor"}
    /\ ev' = IF dev[ev] # "NULL" THEN IF ev = "input" THEN "emit_input"
                                                     ELSE "emit_sensor"
             ELSE IF ev = "input" THEN "sensor" ELSE "idle"
    /\ EventFrame

\* The input_report_abs / input_report_key / input_sync calls of the
\* branch, each through the handle.  When the sink was freed and the handle
\* reset meanwhile, the calls fault on the NULL handle or go through on the
\* freed sink (the handle kept in a register).
EventEmit ==
    /\ ev \in {"emit_input", "emit_sensor"}
    /\ LET d == IF ev = "emit_input" THEN "input" ELSE "sensor"
           next == IF ev = "emit_input" THEN "sensor" ELSE "idle" IN
        IF dev[d] = "NULL"
        THEN ev' \in {"oops", next}
        ELSE ev' = next
    /\ EventFrame

valve_sc_raw_event_input_steps == EventTest \/ EventBranch \/ EventEmit

(***************************************************************************)
(* The lifecycle specification                                             *)
(***************************************************************************)
\* send_request's variables while no call is modelled.
ReqIdle ==
    /\ rq = [report_id |-> 0, params |-> <<>>, params_size |-> 0,
             want |-> FALSE, heap |-> 0, answer_size0 |-> 0]
    /\ report = <<>>
    /\ answer = <<>>
    /\ answer_size = 0
    /\ ret = 0
    /\ rpc = "none"
    /\ io = <<>>

\* sc->automouse = false; sc->autobuttons = false; no write under way.
AttrInit ==
    /\ automouse = FALSE
    /\ autobuttons = FALSE
    /\ store = NoStore
    /\ wr = NoWrite
    /\ tx = NoPush

\* The session as devm_kzalloc and the first assignments of probe leave it.
Init ==
    /\ kind \in Kinds
    /\ parse_raw_report = FALSE
    /\ connected = FALSE
    /\ hw_open = FALSE
    /\ work_pending = [w \in Works |-> FALSE]
    /\ pc = [t \in Threads |-> IF t = "probe" THEN "start" ELSE "idle"]
    /\ dev = [d \in Devs |-> "NULL"]
    /\ leaked = [d \in Devs |-> FALSE]
    /\ uniq = "NULL"
    /\ input_ret = "none"
    /\ rx = NoReport
    /\ ReqIdle
    /\ AttrInit
    /\ InputInit

Next ==
    \/ valve_sc_probe
    \/ valve_sc_raw_event
    \/ valve_sc_connect_work
    \/ valve_sc_disconnect_work
    \/ valve_sc_init_device
    \/ valve_sc_stop_device
    \/ valve_sc_remove

Spec == Init /\ [][Next]_vars

\* The same session with the connection reports recorded in rx.
NextEvents ==
    \/ valve_sc_probe
    \/ valve_sc_raw_event_logged
    \/ valve_sc_connect_work
    \/ valve_sc_disconnect_work
    \/ valve_sc_init_device
    \/ valve_sc_stop_device
    \/ valve_sc_remove

SpecEvents == Init /\ [][NextEvents]_vars

\* The same session when no report is delivered during probe or remove:
\* every behaviour of SpecAttached is a behaviour of Spec.
NextAttached ==
    \/ valve_sc_probe
    \/ valve_sc_raw_event_attached
    \/ valve_sc_connect_work
    \/ valve_sc_disconnect_work
    \/ valve_sc_init_device
    \/ valve_sc_stop_device
    \/ valve_sc_remove

SpecAttached == Init /\ [][NextAttached]_vars

\* SpecAttached with the connection reports recorded in rx and the outcome
\* of the sink creation recorded in input_ret.
NextSettle ==
    \/ valve_sc_probe
    \/ valve_sc_raw_event_attached_logged
    \/ valve_sc_connect_work
    \/ valve_sc_disconnect_work
    \/ valve_sc_init_device_outcome
    \/ valve_sc_stop_device
    \/ valve_sc_remove

SpecSettle == Init /\ [][NextSettle]_vars

\* SpecAttached with the handling of input reports, step by step.  The
\* transport hands over the next report only when the handler has returned,
\* and calls remove only then.
NextRace ==
    \/ valve_sc_probe
    \/ ev = "idle" /\ valve_sc_raw_event_attached
    \/ valve_sc_raw_event_input_steps
    \/ valve_sc_connect_work
    \/ valve_sc_disconnect_work
    \/ valve_sc_init_device
    \/ valve_sc_stop_device
    \/ ev = "idle" /\ valve_sc_remove

SpecRace == Init /\ [][NextRace]_vars

\* The attached session, up to its removal, with the attribute files written
\* and the settings pushes recorded in tx.  The teardown, which neither reads
\* nor writes the attributes or the connection state and issues no request,
\* stays queued.
NextAttr ==
    \/ valve_sc_probe
    \/ valve_sc_raw_event_attached
    \/ valve_sc_connect_work
    \/ valve_sc_init_device_logged
    \/ valve_sc_store_automouse
    \/ valve_sc_store_autobuttons

SpecAttr == Init /\ [][NextAttr]_vars

\* A wired session after attach, whose setup has run with or without
\* creating each sink: the input reports are handled and the centering
\* attribute is written.
InitInput ==
    /\ kind = "wired"
    /\ parse_raw_report = TRUE
    /\ connected = TRUE
    /\ hw_open = TRUE
    /\ work_pending = [w \in Works |-> FALSE]
    /\ pc = [t \in Threads |-> IF t = "probe" THEN "done" ELSE "idle"]
    /\ dev \in {[input |-> "registered", sensor |-> "registered"],
                [input |-> "NULL", sensor |-> "registered"],
                [input |-> "NULL", sensor |-> "NULL"]}
    /\ leaked = [d \in Devs |-> FALSE]
    /\ uniq = "set"
    /\ input_ret = "none"
    /\ rx = NoReport
    /\ ReqIdle
    /\ AttrInit
    /\ InputInit

NextInput ==
    \/ valve_sc_raw_event_input
    \/ valve_sc_store_center_touchpads

SpecInput == InitInput /\ [][NextInput]_vars

TypeOK ==
    /\ kind \in Kinds
    /\ parse_raw_report \in BOOLEAN
    /\ connected \in BOOLEAN
    /\ hw_open \in BOOLEAN
    /\ work_pending \in [Works -> BOOLEAN]
    /\ dev \in [Devs -> DevStates]
    /\ leaked \in [Devs -> BOOLEAN]
    /\ uniq \in {"NULL", "set"}
    /\ input_ret \in {"none", "ok", "failed"}
    /\ ev \in {"idle", "input", "emit_input", "sensor", "emit_sensor", "oops"}

(***************************************************************************)
(* valve_sc_send_request                                                   *)
(***************************************************************************)
\* Byte i (from 0) of a buffer filled with the pattern p.
PatternByte(p, i) == (p.base + p.step * i) % 256

Patterns == {[base |-> 0, step |-> 0], [base |-> 1, step |-> 1],
             [base |-> 250, step |-> 3]}

\* The command identifiers the callers pass.
ReportIds == {SC_FEATURE_GET_SERIAL, SC_FEATURE_SETTINGS}

\* What kmalloc'ed memory holds before it is written: one fill byte.
HeapBytes == {0, 165}

\* What the caller's answer buffer and *answer_size hold before the call
\* (the callers leave both uninitialised).
AnswerInit == [i \in 1..AnswerBufferSize |-> 238]
AnswerSizeInit == {-1, 40}

\* The calls: report_id, params (params_size bytes), whether answer is
\* non-NULL, and what the caller and the heap hold beforehand.
Requests ==
    {[report_id |-> id,
      params |-> [i \in 1..n |-> PatternByte(p, i - 1)],
      params_size |-> n,
      want |-> w,
      heap |-> h,
      answer_size0 |-> a] :
        id \in ReportIds, n \in 0..MaxParamsSize, p \in Patterns,
        w \in BOOLEAN, h \in HeapBytes, a \in AnswerSizeInit}

\* params_size > 63: one byte more than the guard of the code lets through.
ParamsTooLarge_OffByOne(n) == n > MaxRequestPayload + 1

\* if (params_size > 62) return -EINVAL;
ParamsTooLarge(n) == n > MaxRequestPayload

\* report = kmalloc(65); report[0] = 0; report[1] = report_id;
\* report[2] = params_size; memcpy(&report[3], params, params_size);
\* the bytes after the payload are whatever the allocation held.
BuildReport(r) ==
    [i \in 1..SC_FEATURE_REPORT_SIZE |->
        IF i = 1 THEN 0
        ELSE IF i = 2 THEN r.report_id
        ELSE IF i = 3 THEN r.params_size % 256
        ELSE IF i - 3 <= r.params_size THEN r.params[i - 3]
        ELSE r.heap]

\* A feature report as the device returns it: identifier, length byte,
\* payload pattern, zero padding.
DeviceFrame(id, len, p) ==
    [i \in 1..SC_FEATURE_REPORT_SIZE |->
        IF i = 1 THEN 0
        ELSE IF i = 2 THEN id
        ELSE IF i = 3 THEN len
        ELSE IF i - 3 <= len THEN PatternByte(p, i - 4)
        ELSE 0]

\* The answers the device may give to request r: the request's identifier or
\* another one, the request's length byte or another one, any pattern.
DeviceFrames(r) ==
    {DeviceFrame(id, len, p) :
        id \in {r.report_id, (r.report_id + 1) % 256},
        len \in {r.params_size % 256, 0, MaxAnswerPayload,
                 MaxAnswerPayload + 1, 255},
        p \in Patterns}

\* The answer processing with *answer_size stored before the identifier is
\* compared.
ReceiveAnswer_StoreFirst(rep, id, ans, size) ==
    IF rep[3] > MaxAnswerPayload \/ rep[2] # id
    THEN [ret |-> -EIO, answer |-> ans, answer_size |-> rep[3]]
    ELSE [ret |-> 0,
          answer |-> [i \in 1..AnswerBufferSize |->
                        IF i <= rep[3] THEN rep[3 + i] ELSE ans[i]],
          answer_size |-> rep[3]]

\* if (report[1] != report_id) -EIO; *answer_size = report[2];
\* if (*answer_size > 61) -EIO; memcpy(answer, &report[3], *answer_size);
ReceiveAnswer(rep, id, ans, size) ==
    IF rep[2] # id
    THEN [ret |-> -EIO, answer |-> ans, answer_size |-> size]
    ELSE IF rep[3] > MaxAnswerPayload
    THEN [ret |-> -EIO, answer |-> ans, answer_size |-> rep[3]]
    ELSE [ret |-> 0,
          answer |-> [i \in 1..AnswerBufferSize |->
                        IF i <= rep[3] THEN rep[3 + i] ELSE ans[i]],
          answer_size |-> rep[3]]

Return(v) == ret' = v /\ rpc' = "done"

\* The size check and the allocation of the report buffer.
RequestEntry ==
    /\ rpc = "entry"
    /\ IF ParamsTooLarge(rq.params_size)
       THEN Return(-EINVAL) /\ UNCHANGED report
       ELSE \/ Return(-ENOMEM) /\ UNCHANGED report
            \/ report' = BuildReport(rq) /\ rpc' = "set" /\ UNCHANGED ret
    /\ UNCHANGED <<rq, answer, answer_size, io>>
    /\ UNCHANGED lifeVars
    /\ AttrQuiet
    /\ UNCHANGED inputVars

\* A feature-set step that goes on to the feature-get whenever an answer is
\* requested and the transfer did not fail, even after a short count.
RequestSet_GetAfterShort ==
    /\ rpc = "set"
    /\ \E r \in TransferResults :
        /\ io' = Append(io, [op |-> "set", frame |-> report, ret |-> r])
        /\ IF r < 0 THEN Return(r)
           ELSE IF ~rq.want
           THEN Return(IF r # SC_FEATURE_REPORT_SIZE THEN -EIO ELSE 0)
           ELSE rpc' = "get" /\ UNCHANGED ret
    /\ UNCHANGED <<rq, report, answer, answer_size>>
    /\ UNCHANGED lifeVars
    /\ AttrQuiet
    /\ UNCHANGED inputVars

\* hid_hw_raw_request(..., HID_REQ_SET_REPORT) and the tests of its result;
\* with an answer requested and the frame accepted, msleep(50) follows.
RequestSet ==
    /\ rpc = "set"
    /\ \E r \in TransferResults :
        /\ io' = Append(io, [op |-> "set", frame |-> report, ret |-> r])
        /\ IF r < 0 THEN Return(r)
           ELSE IF r # SC_FEATURE_REPORT_SIZE THEN Return(-EIO)
           ELSE IF ~rq.want THEN Return(0)
           ELSE rpc' = "get" /\ UNCHANGED ret
    /\ UNCHANGED <<rq, report, answer, answer_size>>
    /\ UNCHANGED lifeVars
    /\ AttrQuiet
    /\ UNCHANGED inputVars

\* hid_hw_raw_request(..., HID_REQ_GET_REPORT) into the same buffer, the
\* tests of its result and of the answer, and the copy to the caller.
RequestGet ==
    /\ rpc = "get"
    /\ \E r \in TransferResults, f \in DeviceFrames(rq) :
        /\ io' = Append(io, [op |-> "get", frame |-> f, ret |-> r])
        /\ report' = IF r < 0 THEN report ELSE f
        /\ IF r < 0 THEN Return(r) /\ UNCHANGED <<answer, answer_size>>
           ELSE IF r # SC_FEATURE_REPORT_SIZE
           THEN Return(-EIO) /\ UNCHANGED <<answer, answer_size>>
           ELSE LET a == ReceiveAnswer(f, rq.report_id, answer, answer_size)
                IN /\ Return(a.ret)
                   /\ answer' = a.answer
                   /\ answer_size' = a.answer_size
    /\ UNCHANGED rq
    /\ UNCHANGED lifeVars
    /\ AttrQuiet
    /\ UNCHANGED inputVars

valve_sc_send_request == RequestEntry \/ RequestSet \/ RequestGet

\* One call of valve_sc_send_request on an attached session.
InitRequest ==
    /\ kind = "receiver"
    /\ parse_raw_report = TRUE
    /\ connected = TRUE
    /\ hw_open = TRUE
    /\ work_pending = [w \in Works |-> FALSE]
    /\ pc = [t \in Threads |->
                IF t = "probe" THEN "done"
                ELSE IF t = "connect_work" THEN "serial_set" ELSE "idle"]
    /\ dev = [d \in Devs |-> "NULL"]
    /\ leaked = [d \in Devs |-> FALSE]
    /\ uniq = "NULL"
    /\ input_ret = "none"
    /\ rx = NoReport
    /\ rq \in Requests
    /\ report = <<>>
    /\ answer = AnswerInit
    /\ answer_size = rq.answer_size0
    /\ ret = 0
    /\ rpc = "entry"
    /\ io = <<>>
    /\ AttrInit
    /\ InputInit

NextRequest == valve_sc_send_request

SpecRequest == InitRequest /\ [][NextRequest]_vars

(***************************************************************************)
(* Lifecycle claims                                                        *)
(***************************************************************************)
Running(w) == pc[w] # "idle"

\* No event sink (the input device behind sc->input) of the session is live:
\* none registered behind the handle, none lost.
NoLiveSink == dev["input"] # "registered" /\ ~leaked["input"]

\* C1 (SpecEvents): a step that handles a connection report changes the
\* connection state and schedules a work only for body 0x02 while
\* disconnected (connected, connect_work queued) and body 0x01 while
\* connected (disconnected, disconnect_work queued); for every other body or
\* state it changes nothing, and it never runs a work itself.  No other step
\* queues a work, and no other step but probe's initial assignment changes
\* the connection state.
C1_Step ==
    /\ rx' # NoReport =>
        /\ CASE rx'.body = 2 /\ ~connected ->
                    /\ connected'
                    /\ work_pending' =
                         [work_pending EXCEPT !["connect_work"] = TRUE]
             [] rx'.body = 1 /\ connected ->
                    /\ ~connected'
                    /\ work_pending' =
                         [work_pending EXCEPT !["disconnect_work"] = TRUE]
             [] OTHER -> UNCHANGED <<connected, work_pending>>
        /\ UNCHANGED <<pc, dev, leaked, uniq>>
    /\ rx' = NoReport =>
        /\ \A w \in Works : work_pending'[w] => work_pending[w]
        /\ connected' # connected => pc["probe"] = "switch"

C1_ConnectionTransitions == [][C1_Step]_vars

\* C1 witness: a second 0x02 was handled after the setup of the first had
\* finished and created the sink: nothing is queued and nothing runs.
C1_Witness ==
    /\ kind = "receiver"
    /\ pc["probe"] = "done"
    /\ rx = [size |-> 64, type |-> 3, body |-> 2]
    /\ connected
    /\ dev["input"] = "registered"
    /\ \A w \in Works : ~work_pending[w] /\ ~Running(w)

\* C2 (SpecAttached): once valve_sc_remove has returned, no sink of the
\* session is live.
C2_NoSinkAfterRemove == pc["remove"] = "done" => NoLiveSink

\* C3 (SpecAttached): connect_work and disconnect_work never run at the
\* same time.
C3_NeverConcurrent ==
    ~(Running("connect_work") /\ Running("disconnect_work"))

\* C4 (SpecAttached): whenever valve_sc_init_input assigns a new sink to
\* sc->input, the handle is absent before the assignment.
C4_Step ==
    \A t \in InitThreads :
        (pc[t] = "input_alloc" /\ pc'[t] # "input_alloc")
            => dev["input"] = "NULL"

C4_SinkCreatedOnlyWhenAbsent == [][C4_Step]_vars

\* C5 (SpecAttached): while the session is attached, whenever it is
\* disconnected and neither work is pending or running, no sink is live.
C5_NoSinkWhenDisconnectedIdle ==
    (/\ pc["probe"] = "done"
     /\ pc["remove"] = "idle"
     /\ ~connected
     /\ \A w \in Works : ~work_pending[w] /\ ~Running(w))
        => NoLiveSink

\* C6 (Spec): once valve_sc_remove is past both cancel_work_sync calls, no
\* work of the session is pending or running.
C6_NoWorkAfterCancel ==
    pc["remove"] \in {"check", "stop_input", "stop_sensor", "stop_uniq",
                      "close", "done"}
        => \A w \in Works : ~work_pending[w] /\ ~Running(w)

(***************************************************************************)
(* Feature exchange claims                                                 *)
(***************************************************************************)
\* The call has returned after a feature-set and a feature-get that both
\* transferred all 65 bytes.
Exchanged ==
    /\ rpc = "done"
    /\ Len(io) = 2
    /\ io[1].ret = SC_FEATURE_REPORT_SIZE
    /\ io[2].ret = SC_FEATURE_REPORT_SIZE

\* The device answered with the request's identifier, length byte and
\* payload.
Echoed ==
    /\ io[2].frame[2] = rq.report_id
    /\ io[2].frame[3] = rq.params_size
    /\ \A i \in 1..rq.params_size : io[2].frame[3 + i] = rq.params[i]

\* The caller received exactly the payload it sent, with its length.
PayloadReturned ==
    /\ ret = 0
    /\ answer_size = rq.params_size
    /\ \A i \in 1..rq.params_size : answer[i] = rq.params[i]

\* C7 (SpecRequest): with an answer requested, any payload of 0..62 bytes
\* and an echoing transport, the call succeeds and returns the payload and
\* its length.
C7_RoundTrip ==
    (Exchanged /\ rq.params_size <= MaxRequestPayload /\ Echoed)
        => PayloadReturned

\* The round trip for the payloads the answer check of the code admits.
RoundTripUpToAnswerLimit ==
    (Exchanged /\ rq.params_size <= MaxAnswerPayload /\ Echoed)
        => PayloadReturned

\* C8 (SpecRequest): a call with more than 62 payload bytes returns -EINVAL
\* and has issued no transport operation; until it returns it has issued
\* none either.
C8_TooLargeNoTransport ==
    rq.params_size > MaxRequestPayload
        => /\ io = <<>>
           /\ rpc \in {"entry", "done"}
           /\ rpc = "done" => ret = -EINVAL

\* C8 witness: a call with 63 payload bytes has returned.
C8_Witness ==
    /\ rpc = "done"
    /\ rq.params_size = MaxRequestPayload + 1
    /\ ret = -EINVAL
    /\ io = <<>>

\* C9 (SpecRequest): when the feature-get returns 65 bytes whose identifier
\* differs from the request's, the call returns an error and the caller's
\* answer buffer and answer length are as before the call.
C9_MismatchDeliversNothing ==
    (Exchanged /\ io[2].frame[2] # rq.report_id)
        => /\ ret < 0
           /\ answer = AnswerInit
           /\ answer_size = rq.answer_size0

\* C9 witness: such a mismatching answer was received, with a length byte
\* the answer check would have admitted.
C9_Witness ==
    /\ Exchanged
    /\ io[2].frame[2] # rq.report_id
    /\ io[2].frame[3] = MaxAnswerPayload
    /\ ret = -EIO

\* C10 (SpecRequest): every frame handed to the feature-set operation has 65
\* bytes: 0, the identifier, the payload length, the payload, then zeros.
C10_FrameZeroPadded ==
    \A k \in 1..Len(io) :
        io[k].op = "set" =>
            /\ Len(io[k].frame) = SC_FEATURE_REPORT_SIZE
            /\ io[k].frame[1] = 0
            /\ io[k].frame[2] = rq.report_id
            /\ io[k].frame[3] = rq.params_size
            /\ \A i \in 1..rq.params_size : io[k].frame[3 + i] = rq.params[i]
            /\ \A i \in (4 + rq.params_size)..SC_FEATURE_REPORT_SIZE :
                    io[k].frame[i] = 0

\* The feature-set of the call was accepted with exactly 65 bytes.
SetAccepted == Len(io) >= 1 /\ io[1].ret = SC_FEATURE_REPORT_SIZE

\* C19 (SpecRequest): a call issues at most one feature-set and then at most
\* one feature-get; the feature-get only when an answer is requested and the
\* feature-set was accepted with exactly 65 bytes.  A call that has reached
\* the feature-set returns 0 right after it when no answer is requested and
\* it was accepted, returns an error without a feature-get when it failed
\* or was short, and has issued the feature-get otherwise.
C19_OneSetThenOneGet ==
    /\ Len(io) <= 2
    /\ Len(io) >= 1 => io[1].op = "set"
    /\ Len(io) = 2 => io[2].op = "get" /\ rq.want /\ SetAccepted
    /\ rpc = "get" => Len(io) = 1
    /\ (rpc = "done" /\ Len(io) >= 1) =>
          /\ (SetAccepted /\ ~rq.want) => (Len(io) = 1 /\ ret = 0)
          /\ ~SetAccepted => (Len(io) = 1 /\ ret < 0)
          /\ (SetAccepted /\ rq.want) => Len(io) = 2

\* C19 witness: a call asking for an answer has returned -EIO after a
\* feature-set accepted with 64 bytes, without a feature-get.
C19_Witness ==
    /\ rpc = "done"
    /\ rq.want
    /\ Len(io) = 1
    /\ io[1].op = "set"
    /\ io[1].ret = SC_FEATURE_REPORT_SIZE - 1
    /\ ret = -EIO

\* A call without answer has returned 0 after its only transfer.
C19_FireAndForget ==
    /\ rpc = "done"
    /\ ~rq.want
    /\ Len(io) = 1
    /\ SetAccepted
    /\ ret = 0

(***************************************************************************)
(* Attribute claims                                                        *)
(***************************************************************************)
\* The step is the first part of a write: the text is parsed, the shadow
\* value assigned and sc->connected tested.
WriteBegins == store = NoStore /\ (store' # NoStore \/ wr' # NoWrite)

\* The step is the second part of a write made while connected.
WritePushes == store # NoStore /\ store' = NoStore

\* Thread t takes its step from position p of the setup.
SetupStep(t, p) == pc[t] = p /\ pc'[t] # p

\* After the step the shadow value of attribute a is the one the text buf
\* names ("on" or "off...") and the other shadow value is as before.
ShadowWritten(a, buf) ==
    IF a = "automouse"
    THEN automouse' = (buf[2] = "n") /\ autobuttons' = autobuttons
    ELSE autobuttons' = (buf[2] = "n") /\ automouse' = automouse

\* C11 (SpecAttr): a valid write made while disconnected issues no push,
\* assigns the shadow value and returns count; a valid write made while
\* connected assigns the shadow value and then issues one push that carries
\* it, keeps it and returns count whatever the push returned; the setup
\* pushes the shadow values as they are when it runs; nothing else changes a
\* shadow value or issues a push.
C11_Step ==
    /\ (store = NoStore /\ wr' # NoWrite /\ wr'.ret # -EINVAL) =>
            /\ ~connected
            /\ tx' = NoPush
            /\ store' = NoStore
            /\ wr'.ret = Len(wr'.buf)
            /\ ShadowWritten(wr'.attr, wr'.buf)
    /\ (store = NoStore /\ store' # NoStore) =>
            /\ connected
            /\ tx' = NoPush
            /\ ShadowWritten(store'.attr, store'.buf)
    /\ WritePushes =>
            /\ tx'.by = "store"
            /\ IF store.attr = "automouse"
               THEN /\ tx'.report_id = 135
                    /\ tx'.params = <<8, IF automouse THEN 0 ELSE 7, 0>>
               ELSE /\ tx'.report_id = (IF autobuttons THEN 133 ELSE 129)
                    /\ tx'.params = <<>>
            /\ wr' = [attr |-> store.attr, buf |-> store.buf,
                      ret |-> Len(store.buf)]
            /\ UNCHANGED <<automouse, autobuttons>>
    /\ \A t \in InitThreads :
        /\ SetupStep(t, "settings") =>
                /\ tx'.by = t
                /\ tx'.report_id = 135
                /\ SubSeq(tx'.params, 1, 3) =
                        <<8, IF automouse THEN 0 ELSE 7, 0>>
        /\ SetupStep(t, "autobuttons") =>
                /\ tx'.by = t
                /\ tx'.report_id = (IF autobuttons THEN 133 ELSE 129)
                /\ tx'.params = <<>>
    /\ tx' # NoPush =>
            \/ WritePushes
            \/ \E t \in InitThreads :
                    SetupStep(t, "settings") \/ SetupStep(t, "autobuttons")
    /\ (automouse' # automouse \/ autobuttons' # autobuttons) => WriteBegins

C11_AttributeWrites == [][C11_Step]_vars

\* C11 witness: a write of "on" to automouse made while connected has
\* returned count although its push failed, and the shadow value is on.
C11_Witness ==
    /\ tx.by = "store"
    /\ tx.ret < 0
    /\ wr = [attr |-> "automouse", buf |-> <<"o", "n">>, ret |-> 2]
    /\ automouse

\* A setup started by a connect notification pushes the value "on" that was
\* written to automouse before.
SetupPushesWrittenValue ==
    /\ tx.by = "connect_work"
    /\ tx.report_id = SC_FEATURE_SETTINGS
    /\ tx.params[2] = SC_SETTINGS_AUTOMOUSE_ON
    /\ automouse

(***************************************************************************)
(* Attach claims                                                           *)
(***************************************************************************)
ConnectReport == [size |-> 64, type |-> 3, body |-> 2]

\* C12 (SpecEvents): probe's switch leaves a wired session connected and
\* enters the setup, which runs to its end before probe returns; it leaves a
\* receiver session disconnected and enters the connection-state query,
\* whose every outcome leaves the connection state and the works as they
\* are; from then on a receiver session becomes connected, and a setup is
\* queued, only in a step that handles a report of type 0x03 with body 0x02.
C12_Step ==
    /\ (pc["probe"] = "switch" /\ pc'["probe"] # "switch") =>
            /\ kind = "wired" =>
                    connected' /\ pc'["probe"] = "serial_set"
            /\ kind = "receiver" =>
                    ~connected' /\ pc'["probe"] = "state_set"
            /\ UNCHANGED work_pending
    /\ (pc["probe"] \in {"state_set", "state_get"}
            /\ pc'["probe"] # pc["probe"]) =>
            /\ kind = "receiver"
            /\ pc'["probe"] \in {"state_get", "sysfs"}
            /\ UNCHANGED <<connected, work_pending>>
    /\ (pc["probe"] # "sysfs" /\ pc'["probe"] = "sysfs") =>
            \/ kind = "receiver"
                    /\ pc["probe"] \in {"state_set", "state_get"}
            \/ kind = "wired"
                    /\ pc["probe"] \in {"sensor_alloc", "sensor_reg"}
    /\ (kind = "receiver"
            /\ pc["probe"] \in {"state_set", "state_get", "sysfs", "done"}
            /\ \/ connected' /\ ~connected
               \/ work_pending'["connect_work"]
                    /\ ~work_pending["connect_work"]) =>
            rx' = ConnectReport

ZeroReport(raw) ==
    /\ raw[SC_OFFSET_TYPE] = 1
    /\ \A i \in 7..10 : raw[i] = 0
    /\ \A i \in 16..23 : raw[i] = 0

\* The events es assert value v for axis code and no other value for it.
AssertsAbs(es, code, v) ==
    /\ \E i \in 1..Len(es) : es[i].type = "EV_ABS" /\ es[i].code = code
    /\ \A i \in 1..Len(es) :
        (es[i].type = "EV_ABS" /\ es[i].code = code) => es[i].value = v

\* The events es are one batch: they end with the only synchronisation.
OneBatch(es) ==
    /\ Len(es) > 1
    /\ \A i \in 1..Len(es) : (es[i].type = "EV_SYN") <=> (i = Len(es))

\* The step handles an input report.
HandlesInput == raw_data' # raw_data \/ batch' # batch

\* C13 (SpecInput): on a wired session whose setup created the sink, with
\* centering on, a step that handles an input report whose buttons and axes
\* are zero reports one batch to the sink that asserts (0,0) for the left
\* pad and for the right pad and level 0 for every button in it.
C13_Step ==
    (HandlesInput /\ dev["input"] = "registered" /\ center_touchpads
            /\ ZeroReport(raw_data')) =>
        /\ OneBatch(batch')
        /\ AssertsAbs(batch', "ABS_HAT0X", 0)
        /\ AssertsAbs(batch', "ABS_HAT0Y", 0)
        /\ AssertsAbs(batch', "ABS_HAT1X", 0)
        /\ AssertsAbs(batch', "ABS_HAT1Y", 0)
        /\ \A i \in 1..Len(batch') :
                batch'[i].type = "EV_KEY" => batch'[i].value = 0
        /\ \E i \in 1..Len(batch') : batch'[i].type = "EV_KEY"

C13_ZeroReportCentered == [][C13_Step]_vars

\* C13 witness: such a report, with a trigger pulled, was the last one
\* handled, and its batch holds the left-pad assertion.
C13_Witness ==
    /\ kind = "wired"
    /\ dev["input"] = "registered"
    /\ center_touchpads
    /\ ZeroReport(raw_data)
    /\ raw_data[SC_OFFSET_TRIGGERS_8] = 52
    /\ Len(batch) > 2
    /\ batch[1] = [type |-> "EV_ABS", code |-> "ABS_HAT0X", value |-> 0]

\* The buttons field of the report handled last, from its four bytes.
RawButtons ==
    [lo |-> raw_data[7] + 256 * raw_data[8],
     hi |-> raw_data[9] + 256 * raw_data[10]]

\* The flag of the buttons field that stands for button code.
FlagOf(code) ==
    IF code \in {"BTN_THUMBL", "BTN_STICK_CLICK"} THEN SC_BTN_CLICK_LEFT
    ELSE IF code = "BTN_THUMBR" THEN SC_BTN_CLICK_RIGHT
    ELSE PlainButtons[CHOOSE i \in 1..Len(PlainButtons) :
                            PlainButtons[i].code = code].sc_btn

\* C14 (SpecInput): after every input report handled with the sink live, no
\* button of the catalog whose flag is clear in that report is held pressed
\* by the sink.
C14_NoButtonStaysPressed ==
    (dev["input"] = "registered" /\ raw_data[SC_OFFSET_TYPE] = 1) =>
        \A c \in Catalog :
            ~Flag(RawButtons, FlagOf(c)) => key[c] = 0

\* The signed 16-bit little-endian value at offset o of the report handled
\* last.
RawS16(o) ==
    LET v == raw_data[o] + 256 * raw_data[o + 1]
    IN IF v >= 32768 THEN v - 65536 ELSE v

\* C15 (SpecInput): the fields read from a report are the little-endian
\* values of its bytes: buttons (unsigned 32 bits, kept as two halves) at 7,
\* the triggers at 11 and 12, and the signed 16-bit left axes at 16, right
\* axes at 20, accelerometer at 28 and gyroscope at 34.
C15_FieldsDecoded ==
    /\ fields.buttons = RawButtons
    /\ fields.triggers = [a \in 0..1 |-> raw_data[11 + a]]
    /\ fields.left = [a \in 0..1 |-> RawS16(16 + 2 * a)]
    /\ fields.right = [a \in 0..1 |-> RawS16(20 + 2 * a)]
    /\ fields.accel = [a \in 0..2 |-> RawS16(28 + 2 * a)]
    /\ fields.gyro = [a \in 0..2 |-> RawS16(34 + 2 * a)]

\* C15 witness: bytes 0x00,0x80 at the last gyroscope axis were read as
\* -32768 from a report whose other bytes are 0xFF.
C15_Witness ==
    /\ raw_data[38] = 0
    /\ raw_data[39] = 128
    /\ raw_data[37] = 255
    /\ fields.gyro[2] = -32768
    /\ fields.gyro[1] = -1
    /\ fields.buttons = [lo |-> 65535, hi |-> 65535]

(***************************************************************************)
(* Setup and teardown claims                                               *)
(***************************************************************************)
\* The report path can run: probe has returned and remove is not called.
ReportPathOpen == pc["probe"] = "done" /\ pc["remove"] = "idle"

\* C16 (SpecAttached): while valve_sc_raw_event can run, a handle of the
\* session (sc->input, sc->sensor) is absent or points to a sink that is
\* configured and registered; it never points to a sink that is only
\* allocated.
C16_HandleVisibleOnlyRegistered ==
    ReportPathOpen => \A d \in Devs : dev[d] \in {"NULL", "registered"}

\* A setup is running between the store of sc->uniq and the creation of the
\* event sink that attaches it.
SetupHoldsUniq ==
    \E t \in InitThreads : pc[t] \in {"settings", "autobuttons", "input_alloc"}

\* t ends valve_sc_stop_device.
StopEnds(t) == pc[t] = "stop_uniq" /\ pc'[t] # "stop_uniq"

\* C17 (SpecAttached): a teardown that ends while both handles are absent
\* and a setup holds the serial string it has stored leaves the session
\* state, sc->uniq included, as it was.
C17_Step ==
    \A t \in StopThreads :
        (StopEnds(t) /\ SetupHoldsUniq /\ \A d \in Devs : dev[d] = "NULL")
            => UNCHANGED <<uniq, dev, leaked, connected, work_pending>>

C17_AbsentTeardownNoOp == [][C17_Step]_vars

\* The last setup is over, its valve_sc_init_input failed, and no new setup
\* is queued.
CreationFailed ==
    /\ input_ret = "failed"
    /\ ~Running("connect_work")
    /\ ~work_pending["connect_work"]

\* C18 (SpecSettle): after a setup whose sink creation failed, sc->input is
\* absent, and a connect notification (type 0x03, body 0x02) handled then
\* queues connect_work, which retries the creation.
C18_Step ==
    (CreationFailed /\ rx' = ConnectReport)
        => /\ dev["input"] = "NULL"
           /\ work_pending'["connect_work"]

C18_FailedCreationRetried == [][C18_Step]_vars

\* No work is queued or running.
WorksIdle == \A w \in Works : ~work_pending[w] /\ ~Running(w)

\* C20 (SpecSettle): whenever the session is connected, no work is queued
\* or running and the last setup created its sink, the event sink is live.
C20_SinkLiveWhenSettled ==
    (ReportPathOpen /\ connected /\ WorksIdle /\ input_ret = "ok")
        => dev["input"] = "registered"

(***************************************************************************)
(* Report path claims                                                      *)
(***************************************************************************)
\* Thread t, in valve_sc_stop_device, unregisters and frees the sink behind
\* handle d and resets the handle.
TearsDown(t, d) ==
    /\ pc[t] = (IF d = "input" THEN "stop_input" ELSE "stop_sensor")
    /\ pc'[t] # pc[t]
    /\ dev[d] # "NULL"
    /\ dev'[d] = "NULL"

\* The handler of an input report has read handle d as non-absent and has
\* not finished reporting events through it.
Emitting(d) == ev = (IF d = "input" THEN "emit_input" ELSE "emit_sensor")

\* C21 (SpecRace): valve_sc_stop_device never unregisters and frees a sink
\* while the handler of an input report, having read its handle, is still
\* reporting events to it.
C21_Step ==
    \A t \in StopThreads : \A d \in Devs : TearsDown(t, d) => ~Emitting(d)

C21_NoEventsToTornDownSink == [][C21_Step]_vars

(***************************************************************************)
(* Exchange interleaving claim                                             *)
(***************************************************************************)
\* A setup has issued the feature-set of its serial request, which was
\* accepted, and not yet the feature-get (it sleeps 50 ms in between).
AwaitsAnswer == \E t \in InitThreads : pc[t] = "serial_get"

\* The step issues the feature-set of a request without answer (a call that
\* returns -ENOMEM has issued none).
IssuesFeatureSet == tx'.by # "none" /\ tx'.ret # -ENOMEM

\* C22 (SpecAttr): between the feature-set of a request that expects an
\* answer and its feature-get, no other feature-set is issued on the
\* session.
C22_Step == IssuesFeatureSet => ~AwaitsAnswer

C22_ExchangesDoNotInterleave == [][C22_Step]_vars

(***************************************************************************)
(* Axis range claim                                                        *)
(***************************************************************************)
\* C23 (SpecInput): every stick and touchpad axis value reported to
\* sc->input for the report handled last lies within the bounds declared
\* for the axis at sink creation, -32767..32767.
C23_AxesWithinDeclaredBounds ==
    \A i \in 1..Len(batch) :
        (batch[i].type = "EV_ABS" /\ batch[i].code \in StickPadAxes)
            => batch[i].value \in AxisMin..AxisMax

====
